---- MODULE Spec2Model ----
(***************************************************************************)
(* A model of copick_server.server.CopickRoute: the catch-all route that   *)
(* maps  METHOD /{run}/{kind}/{remainder}  onto the copick store, and of   *)
(* the binary segmentation frame that copick_server.client writes.         *)
(*                                                                         *)
(* Text (paths, names) is a sequence of tokens: each token is an atom of   *)
(* text such as "/", "_", ".zarr", "VoxelSpacing", "alice" or "10.0".      *)
(* str.split, str.replace, str.join and the substring test are computed on *)
(* those sequences as Python computes them on characters.  Request bodies  *)
(* and chunk values are sequences of bytes (0..255).  Floats are kept in   *)
(* tenths (10.0 is 100).                                                   *)
(***************************************************************************)
EXTENDS Integers, Sequences, FiniteSets, TLC

VARIABLES pc, request, response, calls, handled, chunks, picks, segs, puts,
          tasks, sched

vars == <<pc, request, response, calls, handled, chunks, picks, segs, puts,
          tasks, sched>>

(***************************************************************************)
(* Bounds of the model.                                                    *)
(***************************************************************************)
\* PUT requests in one behaviour
MaxPuts == 1
\* largest extent written into a frame header
MaxDim == 2
\* largest number of payload bytes after a frame header
MaxPayload == 4

(***************************************************************************)
(* Python text operations, on token sequences.                             *)
(***************************************************************************)
RECURSIVE split(_, _)
split(s, sep) ==
    IF \A i \in 1..Len(s) : s[i] # sep
    THEN <<s>>
    ELSE LET i == CHOOSE j \in 1..Len(s) :
                      s[j] = sep /\ \A k \in 1..(j - 1) : s[k] # sep
         IN  <<SubSeq(s, 1, i - 1)>> \o split(SubSeq(s, i + 1, Len(s)), sep)

RECURSIVE join(_, _)
join(sep, parts) ==
    IF Len(parts) = 0 THEN <<>>
    ELSE IF Len(parts) = 1 THEN parts[1]
    ELSE parts[1] \o <<sep>> \o join(sep, Tail(parts))

\* s.replace(old, ""): every non-overlapping occurrence of old, left to right
RECURSIVE replace(_, _)
replace(s, old) ==
    IF Len(s) < Len(old) THEN s
    ELSE IF SubSeq(s, 1, Len(old)) = old
         THEN replace(SubSeq(s, Len(old) + 1, Len(s)), old)
         ELSE <<s[1]>> \o replace(Tail(s), old)

\* old in s
contains(s, old) ==
    \E i \in 1..(Len(s) - Len(old) + 1) : SubSeq(s, i, i + Len(old) - 1) = old

\* the numeric literals of the model and their value in tenths
FloatLiterals == ("10.0" :> 100) @@ ("10" :> 100) @@ ("5.0" :> 50)

\* float(s): a ValueError unless s is one numeric literal
float(s) ==
    IF Len(s) = 1 /\ s[1] \in DOMAIN FloatLiterals
    THEN [ok |-> TRUE, val |-> FloatLiterals[s[1]]]
    ELSE [ok |-> FALSE, val |-> 0]

(***************************************************************************)
(* The run catalog (an external collaborator): one run, one voxel spacing, *)
(* a writable and a read-only tomogram.                                    *)
(***************************************************************************)
RunNames == {<<"r1">>}

\* root.get_run(name): the run, or None
get_run(name) == IF name \in RunNames THEN [found |-> TRUE, name |-> name]
                 ELSE [found |-> FALSE, name |-> name]

\* run.get_voxel_spacing(v): the voxel spacings the run has
VoxelSpacings == {100}

\* vs.get_tomogram(type): the tomograms of the voxel spacing
TomogramTypes == {<<"raw">>, <<"wbp">>}

\* tomogram.read_only
read_only(tomo_type) == tomo_type = <<"wbp">>

\* the chunk stores as the catalog holds them before any request
InitChunks == (<<"raw">> :> (<<"0">> :> <<7, 7>>)) @@ (<<"wbp">> :> (<<"0">> :> <<9>>))

\* the pick-set the run holds before any request: bob's, of session s2
InitPicks == <<<<"actin">>, <<"bob">>, <<"s2">>>> :> ((112 :> 53) @@ (117 :> 54))

\* the segmentation the run holds before any request
InitSegs == <<100, <<"my", "_", "seg">>, <<"alice">>, <<"s1">>, FALSE>>
                :> [shape |-> <<1, 1, 2>>, data |-> <<8, 9>>]

(***************************************************************************)
(* Responses and the log of collaborator calls of one request.             *)
(***************************************************************************)
NoBody == <<>>

Store(c, p, s) == [chunks |-> c, picks |-> p, segs |-> s]

\* the locals a handler that is not suspended has to keep: none
NoResume == [handler |-> "none", args |-> <<>>]

\* Response(body, status_code=status)
Response(body, status, log, st) ==
    [raised |-> FALSE, suspended |-> FALSE, status |-> status, body |-> body,
     calls |-> log, store |-> st, resume |-> NoResume]

\* an exception leaves the handler
Raise(log, st) ==
    [raised |-> TRUE, suspended |-> FALSE, status |-> 0, body |-> NoBody,
     calls |-> log, store |-> st, resume |-> NoResume]

\* await request.body() / await request.json(): the task is descheduled
\* until the body has arrived; the handler's locals are kept for its resumption
Suspended(handler, args, log, st) ==
    [raised |-> FALSE, suspended |-> TRUE, status |-> 0, body |-> NoBody,
     calls |-> log, store |-> st, resume |-> [handler |-> handler, args |-> args]]

Call(op, args) == [op |-> op, args |-> args]

\* the collaborator call just logged is the one that raises in this request
Fails(req, log) == req.failAt = Len(log)

(***************************************************************************)
(* CopickRoute._handle_tomogram                                            *)
(***************************************************************************)
\* mutant: the body is appended to the value the chunk key holds
TomogramPut_Appended(req, tomo_type, key, log, st) ==
    LET c1 == Append(log, Call("body", <<>>))
        c2 == Append(c1, Call("zarr_set", <<tomo_type, key, req.body>>))
        old == IF key \in DOMAIN st.chunks[tomo_type] THEN st.chunks[tomo_type][key]
               ELSE <<>>
    IN  IF req.suspend THEN Suspended("_handle_tomogram", <<tomo_type, key>>, log, st)
        ELSE IF Fails(req, c1) THEN Response(NoBody, 500, c1, st)
        ELSE IF Fails(req, c2) THEN Response(NoBody, 500, c2, st)
        ELSE Response(NoBody, 200, c2,
                 [st EXCEPT !.chunks[tomo_type] = (key :> (old \o req.body)) @@ @])

\* mutant: the write goes to the first segment of the chunk key only
TomogramPut_KeyHead(req, tomo_type, key, log, st) ==
    LET c1 == Append(log, Call("body", <<>>))
        c2 == Append(c1, Call("zarr_set", <<tomo_type, SubSeq(key, 1, 1), req.body>>))
    IN  IF req.suspend THEN Suspended("_handle_tomogram", <<tomo_type, key>>, log, st)
        ELSE IF Fails(req, c1) THEN Response(NoBody, 500, c1, st)
        ELSE IF Fails(req, c2) THEN Response(NoBody, 500, c2, st)
        ELSE Response(NoBody, 200, c2,
                 [st EXCEPT !.chunks[tomo_type] = (SubSeq(key, 1, 1) :> req.body) @@ @])

\* PUT to a writable tomogram: the body is stored at the chunk key
TomogramPut(req, tomo_type, key, log, st) ==
    LET c1 == Append(log, Call("body", <<>>))
        c2 == Append(c1, Call("zarr_set", <<tomo_type, key, req.body>>))
    IN  IF req.suspend THEN Suspended("_handle_tomogram", <<tomo_type, key>>, log, st)
        ELSE IF Fails(req, c1) THEN Response(NoBody, 500, c1, st)
        ELSE IF Fails(req, c2) THEN Response(NoBody, 500, c2, st)
        ELSE Response(NoBody, 200, c2,
                 [st EXCEPT !.chunks[tomo_type] = (key :> req.body) @@ @])

\* mutant: the chunk is read but the response is built without it
TomogramGet_NoBody(req, tomo_type, key, log, st) ==
    LET c1 == Append(log, Call("zarr_get", <<tomo_type, key>>))
    IN  IF Fails(req, c1) THEN Raise(c1, st)
        ELSE IF key \notin DOMAIN st.chunks[tomo_type]
             THEN Response(NoBody, 404, c1, st)
        ELSE Response(NoBody, 200, c1, st)

\* every other case: the chunk is read; KeyError is 404
TomogramGet(req, tomo_type, key, log, st) ==
    LET c1 == Append(log, Call("zarr_get", <<tomo_type, key>>))
    IN  IF Fails(req, c1) THEN Raise(c1, st)
        ELSE IF key \notin DOMAIN st.chunks[tomo_type]
             THEN Response(NoBody, 404, c1, st)
        ELSE Response(IF req.method = "HEAD" THEN NoBody
                      ELSE st.chunks[tomo_type][key], 200, c1, st)

\* mutant: the read_only flag is not looked at
TomogramAccess_AnyPut(req, tomo_type, key, log, st) ==
    IF req.method = "PUT"
    THEN TomogramPut(req, tomo_type, key, log, st)
    ELSE TomogramGet(req, tomo_type, key, log, st)

\* the branch on request.method and tomogram.read_only
TomogramAccess(req, tomo_type, key, log, st) ==
    IF req.method = "PUT" /\ ~read_only(tomo_type)
    THEN TomogramPut(req, tomo_type, key, log, st)
    ELSE TomogramGet(req, tomo_type, key, log, st)

_handle_tomogram(req, path, log, st) ==
    LET parts == split(path, "/")
    IN  IF Len(parts) < 2 THEN Response(NoBody, 404, log, st)
        ELSE
        LET vs_str == replace(parts[1], <<"VoxelSpacing">>)
            voxel_spacing == float(vs_str)
            tomo_type == replace(parts[2], <<".zarr">>)
            c1 == Append(log, Call("get_voxel_spacing", <<voxel_spacing.val>>))
            c2 == Append(c1, Call("get_tomogram", <<tomo_type>>))
        IN  IF ~voxel_spacing.ok THEN Response(NoBody, 404, log, st)
            ELSE IF Fails(req, c1) THEN Raise(c1, st)
            ELSE IF voxel_spacing.val \notin VoxelSpacings
                 THEN Response(NoBody, 404, c1, st)
            ELSE IF Fails(req, c2) THEN Raise(c2, st)
            ELSE IF tomo_type \notin TomogramTypes
                 THEN Response(NoBody, 404, c2, st)
            ELSE TomogramAccess(req, tomo_type,
                     join("/", SubSeq(parts, 3, Len(parts))), c2, st)

(***************************************************************************)
(* JSON, on the texts the model sends: a flat object whose keys are one    *)
(* letter and whose values are one digit, the empty array, or text that    *)
(* does not parse.  Spaces between the tokens are insignificant.           *)
(***************************************************************************)
Letters == 97..122
Digits == 48..57

\* the i-th  "k":v  of the compact text of an object's members
MemberOk(inner, i) ==
    LET o == 6 * (i - 1)
    IN  /\ inner[o + 1] = 34 /\ inner[o + 2] \in Letters /\ inner[o + 3] = 34
        /\ inner[o + 4] = 58 /\ inner[o + 5] \in Digits
        /\ (o + 6 <= Len(inner) => inner[o + 6] = 44)

MembersOk(inner) ==
    \/ Len(inner) = 0
    \/ /\ (Len(inner) + 1) % 6 = 0
       /\ \A i \in 1..((Len(inner) + 1) \div 6) : MemberOk(inner, i)

\* the dict of an object's members: a later duplicate key wins
MembersDict(inner) ==
    LET n == (Len(inner) + 1) \div 6
        keys == {inner[6 * (i - 1) + 2] : i \in 1..n}
        last(k) == CHOOSE i \in 1..n :
                       /\ inner[6 * (i - 1) + 2] = k
                       /\ \A j \in (i + 1)..n : inner[6 * (j - 1) + 2] # k
    IN  [k \in keys |-> inner[6 * (last(k) - 1) + 5]]

\* json.loads(text)
json_loads(text) ==
    LET c == SelectSeq(text, LAMBDA x : x # 32)
        inner == SubSeq(c, 2, Len(c) - 1)
    IN  IF c = <<91, 93>>
        THEN [ok |-> TRUE, isDict |-> FALSE, dict |-> <<>>]
        ELSE IF Len(c) >= 2 /\ c[1] = 123 /\ c[Len(c)] = 125 /\ MembersOk(inner)
        THEN [ok |-> TRUE, isDict |-> TRUE, dict |-> MembersDict(inner)]
        ELSE [ok |-> FALSE, isDict |-> FALSE, dict |-> <<>>]

\* json.dumps(items) of a dict given as its (key, value) items in order:
\* the separators are ", " and ": "
RECURSIVE DumpMembers(_)
DumpMembers(items) ==
    IF Len(items) = 0 THEN <<>>
    ELSE <<34, items[1][1], 34, 58, 32, items[1][2]>>
         \o (IF Len(items) = 1 THEN <<>> ELSE <<44, 32>> \o DumpMembers(Tail(items)))

json_dumps(items) == <<123>> \o DumpMembers(items) \o <<125>>

(***************************************************************************)
(* The pick-set collaborator: copick.models.CopickPicksFile and the run's  *)
(* new_picks / get_picks / store.  The metadata schema has the fields p    *)
(* and u, in that order; a body with other or missing fields is refused.   *)
(***************************************************************************)
PicksFileFields == <<112, 117>>

\* CopickPicksFile(**data)
CopickPicksFile(data) ==
    IF data.isDict /\ DOMAIN data.dict = {PicksFileFields[i] : i \in 1..Len(PicksFileFields)}
    THEN [ok |-> TRUE, meta |-> data.dict]
    ELSE [ok |-> FALSE, meta |-> <<>>]

\* meta.dict(): the fields in the order of the schema
MetaDict(meta) == [i \in 1..Len(PicksFileFields) |-> <<PicksFileFields[i], meta[PicksFileFields[i]]>>]

\* the metadata of a pick-set that new_picks has just created
NewMeta == [k \in {PicksFileFields[i] : i \in 1..Len(PicksFileFields)} |-> 48]

\* run.new_picks(object_name, user_id, session_id): creates the pick-set, or
\* obtains the one the run has
new_picks(ps, ident) == IF ident \in DOMAIN ps THEN ps ELSE (ident :> NewMeta) @@ ps

\* run.get_picks(object_name, user_id, session_id)
get_picks(ps, ident) == IF ident \in DOMAIN ps THEN <<ps[ident]>> ELSE <<>>

(***************************************************************************)
(* CopickRoute._handle_picks                                               *)
(***************************************************************************)
\* mutant: the validated body is never assigned to picks.meta
PicksPut_Unassigned(req, ident, log, st) ==
    LET c1 == Append(log, Call("new_picks", ident))
        st1 == [st EXCEPT !.picks = new_picks(@, ident)]
        c2 == Append(c1, Call("json", <<>>))
        data == json_loads(req.body)
        file == CopickPicksFile(data)
        c3 == Append(c2, Call("store", ident))
    IN  IF Fails(req, c1) THEN Response(NoBody, 500, c1, st)
        ELSE IF Fails(req, c2) \/ ~data.ok THEN Response(NoBody, 500, c2, st1)
        ELSE IF ~file.ok THEN Response(NoBody, 500, c2, st1)
        ELSE IF Fails(req, c3) THEN Response(NoBody, 500, c3, st1)
        ELSE Response(NoBody, 200, c3, st1)

\* the PUT from data = await request.json() on: c1 is the log and st1 the
\* store once new_picks has returned the handle of ident
PicksPutBody(req, ident, c1, st1) ==
    LET c2 == Append(c1, Call("json", <<>>))
        data == json_loads(req.body)
        file == CopickPicksFile(data)
        c3 == Append(c2, Call("store", ident))
    IN  IF Fails(req, c2) \/ ~data.ok THEN Response(NoBody, 500, c2, st1)
        ELSE IF ~file.ok THEN Response(NoBody, 500, c2, st1)
        ELSE IF Fails(req, c3)
             THEN Response(NoBody, 500, c3, [st1 EXCEPT !.picks[ident] = file.meta])
        ELSE Response(NoBody, 200, c3, [st1 EXCEPT !.picks[ident] = file.meta])

PicksPut(req, ident, log, st) ==
    LET c1 == Append(log, Call("new_picks", ident))
        st1 == [st EXCEPT !.picks = new_picks(@, ident)]
    IN  IF Fails(req, c1) THEN Response(NoBody, 500, c1, st)
        ELSE IF req.suspend THEN Suspended("_handle_picks", ident, c1, st1)
        ELSE PicksPutBody(req, ident, c1, st1)

\* mutant: HEAD is answered before the lookup's result is looked at
PicksGet_HeadFirst(req, ident, log, st) ==
    LET c1 == Append(log, Call("get_picks", ident))
        found == get_picks(st.picks, ident)
    IN  IF Fails(req, c1) THEN Raise(c1, st)
        ELSE IF req.method = "HEAD" THEN Response(NoBody, 200, c1, st)
        ELSE IF found = <<>> THEN Response(NoBody, 404, c1, st)
        ELSE Response(json_dumps(MetaDict(found[1])), 200, c1, st)

PicksGet(req, ident, log, st) ==
    LET c1 == Append(log, Call("get_picks", ident))
        found == get_picks(st.picks, ident)
    IN  IF Fails(req, c1) THEN Raise(c1, st)
        ELSE IF found = <<>> THEN Response(NoBody, 404, c1, st)
        ELSE IF req.method = "HEAD" THEN Response(NoBody, 200, c1, st)
        ELSE Response(json_dumps(MetaDict(found[1])), 200, c1, st)

\* mutant: only too few fields are refused
PickPartsOk_AtLeast(pick_parts) == Len(pick_parts) >= 3

\* len(pick_parts) != 3 is refused
PickPartsOk(pick_parts) == Len(pick_parts) = 3

_handle_picks(req, path, log, st) ==
    LET parts == split(path, "/")
        pick_file == parts[1]
        pick_parts == split(pick_file, "_")
    IN  IF Len(parts) < 1 THEN Response(NoBody, 404, log, st)
        ELSE IF ~PickPartsOk(pick_parts) THEN Response(NoBody, 404, log, st)
        ELSE
        LET user_id == pick_parts[1]
            session_id == pick_parts[2]
            object_name == replace(pick_parts[3], <<".json">>)
            ident == <<object_name, user_id, session_id>>
        IN  IF req.method = "PUT" THEN PicksPut(req, ident, log, st)
            ELSE PicksGet(req, ident, log, st)

(***************************************************************************)
(* The binary segmentation frame: three int64 extents, then the C-order    *)
(* bytes of the uint8 array.  An array is its shape and its flat bytes.    *)
(***************************************************************************)
\* the little-endian two's complement bytes of an int64 of small magnitude
Int64Bytes(v) ==
    LET m == IF v >= 0 THEN v ELSE -v - 1
        low(i) == IF i = 1 THEN m % 256
                  ELSE IF i = 2 THEN (m \div 256) % 256
                  ELSE IF i = 3 THEN (m \div 65536) % 256
                  ELSE 0
    IN  [i \in 1..8 |-> IF v >= 0 THEN low(i) ELSE 255 - low(i)]

\* np.array(shape, dtype=np.int64).tobytes()
RECURSIVE ShapeBytes(_)
ShapeBytes(shape) ==
    IF Len(shape) = 0 THEN <<>> ELSE Int64Bytes(shape[1]) \o ShapeBytes(Tail(shape))

\* client: shape_header + data.tobytes()
EncodeFrame(array) == ShapeBytes(array.shape) \o array.data

\* the magnitude of little-endian bytes: least significant first
RECURSIVE Magnitude(_)
Magnitude(b) == IF Len(b) = 0 THEN 0 ELSE b[1] + 256 * Magnitude(Tail(b))

\* one int64 from its 8 bytes
Int64Of(b) ==
    IF b[8] < 128 THEN Magnitude(b)
    ELSE -(1 + Magnitude([i \in 1..8 |-> 255 - b[i]]))

\* np.frombuffer(buf, dtype=np.int64): ValueError unless whole items
frombuffer_int64(buf) ==
    IF Len(buf) % 8 # 0 THEN [ok |-> FALSE, val |-> <<>>]
    ELSE [ok |-> TRUE,
          val |-> [j \in 1..(Len(buf) \div 8) |-> Int64Of(SubSeq(buf, 8 * j - 7, 8 * j))]]

RECURSIVE Product(_)
Product(shape) == IF Len(shape) = 0 THEN 1 ELSE shape[1] * Product(Tail(shape))

\* ndarray.reshape(shape) of flat data: a negative extent is the one unknown
\* dimension, inferred from the size; otherwise the product must be the size
reshape(data, shape) ==
    LET unknown == {i \in 1..Len(shape) : shape[i] < 0}
        known == Product([i \in 1..Len(shape) |-> IF shape[i] < 0 THEN 1 ELSE shape[i]])
        bad == [ok |-> FALSE, array |-> [shape |-> <<>>, data |-> <<>>]]
    IN  IF Cardinality(unknown) > 1 THEN bad
        ELSE IF Cardinality(unknown) = 1
        THEN IF known = 0 \/ Len(data) % known # 0 THEN bad
             ELSE [ok |-> TRUE,
                   array |-> [shape |-> [i \in 1..Len(shape) |->
                                           IF shape[i] < 0 THEN Len(data) \div known
                                           ELSE shape[i]],
                              data |-> data]]
        ELSE IF known # Len(data) THEN bad
        ELSE [ok |-> TRUE, array |-> [shape |-> shape, data |-> data]]

\* mutant: the data is taken from blob[23:]
DecodeFrame_OffByOne(blob) ==
    LET shape == frombuffer_int64(SubSeq(blob, 1, IF Len(blob) < 24 THEN Len(blob) ELSE 24))
        data == SubSeq(blob, 24, Len(blob))
    IN  IF ~shape.ok THEN [ok |-> FALSE, array |-> [shape |-> <<>>, data |-> <<>>]]
        ELSE reshape(data, shape.val)

\* server: shape from blob[:24], data from blob[24:] reshaped
DecodeFrame(blob) ==
    LET shape == frombuffer_int64(SubSeq(blob, 1, IF Len(blob) < 24 THEN Len(blob) ELSE 24))
        data == SubSeq(blob, 25, Len(blob))
    IN  IF ~shape.ok THEN [ok |-> FALSE, array |-> [shape |-> <<>>, data |-> <<>>]]
        ELSE reshape(data, shape.val)

(***************************************************************************)
(* The segmentation collaborators: copick_utils.writers.write.segmentation *)
(* and run.get_segmentations.  A written segmentation is found under the   *)
(* identity it was written with; its chunk store holds the volume's bytes  *)
(* at key 0.                                                               *)
(***************************************************************************)
segmentation(sg, ident, volume) == (ident :> volume) @@ sg

get_segmentations(sg, ident) == IF ident \in DOMAIN sg THEN <<sg[ident]>> ELSE <<>>

SegChunks(volume) == <<"0">> :> volume.data

(***************************************************************************)
(* CopickRoute._handle_segmentation                                        *)
(***************************************************************************)
SegmentationPut(req, ident, log, st) ==
    LET c1 == Append(log, Call("body", <<>>))
        decoded == DecodeFrame(req.body)
        c2 == Append(c1, Call("segmentation",
                              [volume |-> decoded.array, ident |-> ident]))
    IN  IF req.suspend THEN Suspended("_handle_segmentation", ident, log, st)
        ELSE IF Fails(req, c1) THEN Response(NoBody, 500, c1, st)
        ELSE IF ~decoded.ok THEN Response(NoBody, 500, c1, st)
        ELSE IF Fails(req, c2) THEN Response(NoBody, 500, c2, st)
        ELSE Response(NoBody, 200, c2,
                 [st EXCEPT !.segs = segmentation(@, ident, decoded.array)])

SegmentationGet(req, ident, key, log, st) ==
    LET c1 == Append(log, Call("get_segmentations", ident))
        found == get_segmentations(st.segs, ident)
        c2 == Append(c1, Call("zarr_get", <<ident, key>>))
    IN  IF Fails(req, c1) THEN Raise(c1, st)
        ELSE IF found = <<>> THEN Response(NoBody, 404, c1, st)
        ELSE IF Fails(req, c2) THEN Raise(c2, st)
        ELSE IF key \notin DOMAIN SegChunks(found[1])
             THEN Response(NoBody, 404, c2, st)
        ELSE Response(IF req.method = "HEAD" THEN NoBody
                      ELSE SegChunks(found[1])[key], 200, c2, st)

\* mutant: the raw name is used as it is, '-multilabel' is not removed
_handle_segmentation_Unstripped(req, path, log, st) ==
    LET parts == split(path, "/")
        seg_file == replace(parts[1], <<".zarr">>)
        seg_parts == split(seg_file, "_")
    IN  IF Len(parts) < 1 THEN Response(NoBody, 404, log, st)
        ELSE IF Len(seg_parts) < 4 THEN Response(NoBody, 404, log, st)
        ELSE
        LET voxel_size == float(seg_parts[1])
            user_id == seg_parts[2]
            session_id == seg_parts[3]
            name == join("_", SubSeq(seg_parts, 4, Len(seg_parts)))
            is_multilabel == contains(name, <<"multilabel">>)
            ident == <<voxel_size.val, name, user_id, session_id, is_multilabel>>
        IN  IF ~voxel_size.ok THEN Raise(log, st)
            ELSE IF req.method = "PUT" THEN SegmentationPut(req, ident, log, st)
            ELSE SegmentationGet(req, ident,
                     join("/", SubSeq(parts, 2, Len(parts))), log, st)

_handle_segmentation(req, path, log, st) ==
    LET parts == split(path, "/")
        seg_file == replace(parts[1], <<".zarr">>)
        seg_parts == split(seg_file, "_")
    IN  IF Len(parts) < 1 THEN Response(NoBody, 404, log, st)
        ELSE IF Len(seg_parts) < 4 THEN Response(NoBody, 404, log, st)
        ELSE
        LET voxel_size == float(seg_parts[1])
            user_id == seg_parts[2]
            session_id == seg_parts[3]
            name == join("_", SubSeq(seg_parts, 4, Len(seg_parts)))
            is_multilabel == contains(name, <<"multilabel">>)
            ident == <<voxel_size.val, replace(name, <<"-", "multilabel">>),
                       user_id, session_id, is_multilabel>>
        IN  IF ~voxel_size.ok THEN Raise(log, st)
            ELSE IF req.method = "PUT" THEN SegmentationPut(req, ident, log, st)
            ELSE SegmentationGet(req, ident,
                     join("/", SubSeq(parts, 2, Len(parts))), log, st)

(***************************************************************************)
(* CopickRoute.handle_request                                              *)
(***************************************************************************)
\* if len(path_parts) >= 3
EnoughParts(path_parts) == Len(path_parts) >= 3

\* mutant: the None check is missing
RunIsNone_Never(run) == FALSE

\* if run is None
RunIsNone(run) == ~run.found

\* a handler was called with the sub-path, and this is its outcome
Invoked(handler, sub, r) == [handler |-> handler, path |-> sub, r |-> r]

\* mutant: the Picks and Segmentations branches call each other's handler
Dispatch_Swapped(req, data_type, sub, log, st) ==
    IF data_type = <<"Tomograms">>
    THEN Invoked("_handle_tomogram", sub, _handle_tomogram(req, sub, log, st))
    ELSE IF data_type = <<"Picks">>
    THEN Invoked("_handle_segmentation", sub, _handle_segmentation(req, sub, log, st))
    ELSE IF data_type = <<"Segmentations">>
    THEN Invoked("_handle_picks", sub, _handle_picks(req, sub, log, st))
    ELSE Invoked("none", sub, Response(NoBody, 404, log, st))

\* the if / elif chain on data_type; no branch taken leaves handler "none"
Dispatch(req, data_type, sub, log, st) ==
    IF data_type = <<"Tomograms">>
    THEN Invoked("_handle_tomogram", sub, _handle_tomogram(req, sub, log, st))
    ELSE IF data_type = <<"Picks">>
    THEN Invoked("_handle_picks", sub, _handle_picks(req, sub, log, st))
    ELSE IF data_type = <<"Segmentations">>
    THEN Invoked("_handle_segmentation", sub, _handle_segmentation(req, sub, log, st))
    ELSE Invoked("none", sub, Response(NoBody, 404, log, st))

\* mutant: no except clause, the exception leaves handle_request
Caught_Reraised(r) == r

\* except Exception: the router answers 500 for an exception; a handler's
\* response is returned as it is
Caught(r) == IF r.raised THEN Response(NoBody, 500, r.calls, r.store) ELSE r

handle_request(req, st) ==
    LET path_parts == split(req.path, "/")
        run_name == path_parts[1]
        data_type == path_parts[2]
        sub == join("/", SubSeq(path_parts, 3, Len(path_parts)))
        c1 == <<Call("get_run", <<run_name>>)>>
    IN  IF ~EnoughParts(path_parts)
        THEN [result |-> Response(NoBody, 404, <<>>, st), handled |-> <<>>]
        ELSE IF Fails(req, c1)
        THEN [result |-> Caught(Raise(c1, st)), handled |-> <<>>]
        ELSE IF RunIsNone(get_run(run_name))
        THEN [result |-> Response(NoBody, 404, c1, st), handled |-> <<>>]
        ELSE LET d == Dispatch(req, data_type, sub, c1, st)
             IN  [result |-> Caught(d.r),
                  handled |-> IF d.handler = "none" THEN <<>>
                              ELSE <<[handler |-> d.handler, path |-> d.path,
                                      raised |-> d.r.raised, status |-> d.r.status,
                                      body |-> d.r.body]>>]

(***************************************************************************)
(* The requests the model sends.                                           *)
(***************************************************************************)
Path(run, kind, sub) == run \o <<"/">> \o kind \o <<"/">> \o sub

TomogramSubs ==
    { <<"VoxelSpacing", "10.0", "/", "raw", ".zarr", "/", "0">>,
      <<"VoxelSpacing", "10.0", "/", "raw", ".zarr", "/", "1">>,
      <<"VoxelSpacing", "10", "/", "raw", ".zarr", "/", "0", "/", "1">>,
      <<"VoxelSpacing", "10.0", "/", "wbp", ".zarr", "/", "0">>,
      <<"VoxelSpacing", "10.0", "/", "wbp", ".zarr", "/", "1">>,
      <<"VoxelSpacing", "5.0", "/", "raw", ".zarr", "/", "0">>,
      <<"VoxelSpacing", "10.0", "/", "xyz", ".zarr", "/", "0">>,
      <<"VoxelSpacing", "XYZ", "/", "raw", ".zarr", "/", "0">>,
      <<"VoxelSpacing", "10.0">> }

PicksSubs ==
    { <<"alice", "_", "s1", "_", "ribosome", ".json">>,
      <<"bob", "_", "s2", "_", "actin", ".json">>,
      <<"alice", "_", "s1", "_", "test", "_", "object", ".json">>,
      <<"alice", "_", "s1", ".json">>,
      <<"alice", ".json">>,
      <<>> }

SegmentationSubs ==
    { <<"10.0", "_", "alice", "_", "s1", "_", "membrane", ".zarr", "/", "0">>,
      <<"10.0", "_", "alice", "_", "s1", "_", "membrane", "-", "multilabel", ".zarr", "/", "0">>,
      <<"10.0", "_", "alice", "_", "s1", "_", "my", "_", "seg", ".zarr", "/", "0">>,
      <<"10.0", "_", "alice", "_", "s1", "_", "my", "_", "seg", ".zarr", "/", "1">>,
      <<"10.0", "_", "alice", "_", "s1", "_", "multilabel", ".zarr">>,
      <<"XYZ", "_", "alice", "_", "s1", "_", "membrane", ".zarr", "/", "0">>,
      <<"10.0", "_", "alice", "_", "s1", ".zarr">>,
      <<>> }

\* paths the router itself answers: too short, unknown kind, unknown run
RouterPaths ==
    { <<>>, <<"r1">>, <<"r1", "/", "Tomograms">>, <<"zz", "/", "Picks">>,
      <<"r1", "/", "Other", "/", "x">>, <<"r1", "/", "tomograms", "/", "x">>,
      Path(<<"zz">>, <<"Tomograms">>, <<"VoxelSpacing", "10.0", "/", "raw", ".zarr", "/", "0">>),
      Path(<<"zz">>, <<"Picks">>, <<"alice", "_", "s1", "_", "ribosome", ".json">>),
      Path(<<"zz">>, <<"Segmentations">>,
           <<"10.0", "_", "alice", "_", "s1", "_", "membrane", ".zarr", "/", "0">>),
      Path(<<"zz">>, <<"Other">>, <<"x">>) }

TomogramBodies == { <<1, 2, 3>>, <<4>> }

PicksBodies ==
    { <<123, 34, 112, 34, 58, 49, 44, 34, 117, 34, 58, 50, 125>>,
      <<123, 34, 117, 34, 58, 32, 52, 44, 32, 34, 112, 34, 58, 32, 51, 125>>,
      <<123, 34, 112, 34, 58, 49, 125>>,
      <<123, 34, 112, 34, 58, 49, 44, 34, 117, 34, 58, 50, 44, 34, 120, 34, 58, 51, 125>>,
      <<91, 93>>,
      <<123, 34, 112, 34, 58, 49>> }

\* the payload patterns: k bytes counting up, or counting down from 254
Ascending(k) == [i \in 1..k |-> i]
Descending(k) == [i \in 1..k |-> 255 - i]

SegmentationBodies ==
    { EncodeFrame([shape |-> <<1, 2, 2>>, data |-> Ascending(4)]),
      EncodeFrame([shape |-> <<2, 1, 1>>, data |-> Descending(2)]),
      EncodeFrame([shape |-> <<0, 1, 2>>, data |-> <<>>]),
      ShapeBytes(<<1, 1, 1>>) \o Ascending(2),
      ShapeBytes(<<-1, 1, 1>>) \o Ascending(2),
      ShapeBytes(<<0>>) }

\* failAt: the collaborator call of a request that raises (0: none does),
\* up to the number of calls the longest request of a family makes

\* suspend: the task is descheduled where the handler awaits the body
Req(method, path, body, failAt) ==
    [method |-> method, path |-> path, body |-> body, failAt |-> failAt,
     suspend |-> FALSE]

ReadRequests(paths, calls_made) ==
    { Req(m, p, <<>>, f) : m \in {"GET", "HEAD"}, p \in paths, f \in 0..calls_made }

PutRequests(paths, bodies, calls_made) ==
    { Req("PUT", p, b, f) : p \in paths, b \in bodies, f \in 0..calls_made }

KindPaths(kind, subs) == { Path(<<"r1">>, kind, sub) : sub \in subs }

AllPaths ==
    KindPaths(<<"Tomograms">>, TomogramSubs) \cup KindPaths(<<"Picks">>, PicksSubs)
    \cup KindPaths(<<"Segmentations">>, SegmentationSubs) \cup RouterPaths

Requests ==
    ReadRequests(KindPaths(<<"Tomograms">>, TomogramSubs), 4)
    \cup ReadRequests(KindPaths(<<"Picks">>, PicksSubs), 2)
    \cup ReadRequests(KindPaths(<<"Segmentations">>, SegmentationSubs), 3)
    \cup ReadRequests(RouterPaths, 1)
    \cup PutRequests(KindPaths(<<"Tomograms">>, TomogramSubs), TomogramBodies, 5)
    \cup PutRequests(KindPaths(<<"Picks">>, PicksSubs), PicksBodies, 4)
    \cup PutRequests(KindPaths(<<"Segmentations">>, SegmentationSubs), SegmentationBodies, 3)
    \cup PutRequests(RouterPaths, {<<4>>}, 1)

(***************************************************************************)
(* The state machine: the transport hands one request to handle_request,   *)
(* which runs to its response; then the response is sent.                  *)
(***************************************************************************)
NoRequest == Req("NONE", <<>>, <<>>, 0)
NoResponse == [status |-> 0, body |-> NoBody]

\* the tasks the transport schedules at once, and a task that has not started
Tasks == {1, 2}

NewTask == [pc |-> "new", req |-> NoRequest, resume |-> NoResume,
            calls |-> <<>>, response |-> NoResponse]

Init ==
    /\ pc = "idle"
    /\ request = NoRequest
    /\ response = NoResponse
    /\ calls = <<>>
    /\ handled = <<>>
    /\ chunks = InitChunks
    /\ picks = InitPicks
    /\ segs = InitSegs
    /\ puts = 0
    /\ tasks = [t \in Tasks |-> NewTask]
    /\ sched = <<>>

Handle(req) ==
    /\ pc = "idle"
    /\ req.method = "PUT" => puts < MaxPuts
    /\ LET h == handle_request(req, Store(chunks, picks, segs))
       IN  /\ response' = [status |-> h.result.status, body |-> h.result.body]
           /\ calls' = h.result.calls
           /\ handled' = h.handled
           /\ chunks' = h.result.store.chunks
           /\ picks' = h.result.store.picks
           /\ segs' = h.result.store.segs
    /\ request' = req
    /\ puts' = IF req.method = "PUT" THEN puts + 1 ELSE puts
    /\ pc' = "done"
    /\ UNCHANGED <<tasks, sched>>

Respond ==
    /\ pc = "done"
    /\ pc' = "idle"
    /\ request' = NoRequest
    /\ response' = NoResponse
    /\ calls' = <<>>
    /\ handled' = <<>>
    /\ UNCHANGED <<chunks, picks, segs, puts, tasks, sched>>

Next == (\E req \in Requests : Handle(req)) \/ Respond

Spec == Init /\ [][Next]_vars

(***************************************************************************)
(* The frames of the codec: every header of three extents in -1..MaxDim    *)
(* followed by up to MaxPayload bytes, and the truncations of the headers. *)
(***************************************************************************)
Extents == (-1)..MaxDim

Shapes == { <<d0, d1, d2>> : d0 \in Extents, d1 \in Extents, d2 \in Extents }

Payloads == { Ascending(k) : k \in 0..MaxPayload } \cup { Descending(k) : k \in 1..MaxPayload }

FullFrames == { ShapeBytes(sh) \o p : sh \in Shapes, p \in Payloads }

ShortFrames == { SubSeq(ShapeBytes(sh), 1, n) : sh \in Shapes, n \in {0, 1, 8, 16, 23} }

FramePath == Path(<<"r1">>, <<"Segmentations">>,
                  <<"10.0", "_", "alice", "_", "s1", "_", "membrane", ".zarr">>)

\* failAt 3 is the persistence collaborator raising
FrameRequests ==
    { Req("PUT", FramePath, b, f) : b \in FullFrames \cup ShortFrames, f \in {0, 3} }

\* one frame is PUT to the server as constructed
NextFrame == (\E req \in FrameRequests : puts = 0 /\ Handle(req)) \/ Respond

SpecFrame == Init /\ [][NextFrame]_vars

(***************************************************************************)
(* Concurrent requests.  Each request is handled by a task of the event    *)
(* loop; a task runs without interruption except where its handler awaits  *)
(* the request body (await request.body(), await request.json()): there    *)
(* another task may run.  The calls on the catalog and the chunk stores    *)
(* are synchronous.  sched is the order in which the tasks were run.       *)
(***************************************************************************)
ConcTomogramPath ==
    Path(<<"r1">>, <<"Tomograms">>, <<"VoxelSpacing", "10.0", "/", "raw", ".zarr", "/", "0">>)

ConcPicksPath ==
    Path(<<"r1">>, <<"Picks">>, <<"alice", "_", "s1", "_", "ribosome", ".json">>)

ConcPicksBodies ==
    { <<123, 34, 112, 34, 58, 49, 44, 34, 117, 34, 58, 50, 125>>,
      <<123, 34, 117, 34, 58, 32, 52, 44, 32, 34, 112, 34, 58, 32, 51, 125>>,
      <<91, 93>> }

\* failAt 5 is the chunk write raising, failAt 4 the pick-set's store()
ConcRequests ==
    { [r EXCEPT !.suspend = TRUE] :
        r \in PutRequests({ConcTomogramPath}, TomogramBodies, 0)
              \cup PutRequests({ConcTomogramPath}, TomogramBodies, 5)
              \cup PutRequests({ConcPicksPath}, ConcPicksBodies, 0)
              \cup PutRequests({ConcPicksPath}, ConcPicksBodies, 4)
              \cup PutRequests({FramePath},
                       {EncodeFrame([shape |-> <<1, 1, 2>>, data |-> Ascending(2)])}, 0)
              \cup ReadRequests({ConcTomogramPath, ConcPicksPath}, 0) }

\* the handler continues after its await with the locals it kept
ResumeHandler(req, resume, log, st) ==
    IF resume.handler = "_handle_tomogram"
    THEN TomogramPut(req, resume.args[1], resume.args[2], log, st)
    ELSE IF resume.handler = "_handle_picks"
    THEN PicksPutBody(req, resume.args, log, st)
    ELSE SegmentationPut(req, resume.args, log, st)

\* the task of a request starts and runs to its response or to its await
Start(t, req) ==
    /\ tasks[t].pc = "new"
    /\ LET r == handle_request(req, Store(chunks, picks, segs)).result
       IN  /\ tasks' = [tasks EXCEPT ![t] =
                          [pc |-> IF r.suspended THEN "await" ELSE "done",
                           req |-> req, resume |-> r.resume, calls |-> r.calls,
                           response |-> [status |-> r.status, body |-> r.body]]]
           /\ chunks' = r.store.chunks
           /\ picks' = r.store.picks
           /\ segs' = r.store.segs
    /\ sched' = Append(sched, <<t, "start">>)
    /\ UNCHANGED <<pc, request, response, calls, handled, puts>>

\* the body has arrived: the task runs from its await to its response
Resume(t) ==
    /\ tasks[t].pc = "await"
    /\ LET r == Caught(ResumeHandler([tasks[t].req EXCEPT !.suspend = FALSE],
                                     tasks[t].resume, tasks[t].calls,
                                     Store(chunks, picks, segs)))
       IN  /\ tasks' = [tasks EXCEPT ![t] =
                          [pc |-> "done", req |-> tasks[t].req, resume |-> NoResume,
                           calls |-> r.calls,
                           response |-> [status |-> r.status, body |-> r.body]]]
           /\ chunks' = r.store.chunks
           /\ picks' = r.store.picks
           /\ segs' = r.store.segs
    /\ sched' = Append(sched, <<t, "resume">>)
    /\ UNCHANGED <<pc, request, response, calls, handled, puts>>

NextConc == (\E t \in Tasks, req \in ConcRequests : Start(t, req))
            \/ (\E t \in Tasks : Resume(t))

SpecConc == Init /\ [][NextConc]_vars

(***************************************************************************)
(* Vocabulary of the properties.                                           *)
(***************************************************************************)
Done == pc = "done"

\* the calls of the request just handled that went to collaborator op
CallsTo(op) == { i \in 1..Len(calls) : calls[i].op = op }

\* a collaborator call of the request just handled raised
Faulted == request.failAt \in 1..Len(calls)

\* the store as the state holds it
Now == Store(chunks, picks, segs)

\* an array of three non-negative extents whose payload fills it
WellShaped(sh, p) == (\A i \in 1..3 : sh[i] >= 0) /\ Len(p) = sh[1] * sh[2] * sh[3]

(***************************************************************************)
(* C1.  Frame round trip: when the body of a segmentation PUT is the frame *)
(* the client encodes for a uint8 array of shape (d0,d1,d2), every extent  *)
(* >= 0, the handler forwards to the persistence collaborator exactly one  *)
(* volume, of that shape and with those bytes, and answers 200 unless a    *)
(* collaborator raised.                                                    *)
(***************************************************************************)
C1_FrameRoundTrip ==
    Done =>
      \A sh \in Shapes, p \in Payloads :
        (WellShaped(sh, p) /\ request.body = EncodeFrame([shape |-> sh, data |-> p]))
        => /\ Cardinality(CallsTo("segmentation")) = 1
           /\ \A i \in CallsTo("segmentation") :
                calls[i].args.volume = [shape |-> sh, data |-> p]
           /\ (~Faulted => response.status = 200 /\ segs[calls[Len(calls)].args.ident]
                                                     = [shape |-> sh, data |-> p])

\* the frame of a (1,2,2) array has been decoded and forwarded
C1_Witness ==
    /\ Done /\ response.status = 200
    /\ request.body = EncodeFrame([shape |-> <<1, 2, 2>>, data |-> Ascending(4)])
    /\ \E i \in CallsTo("segmentation") :
         calls[i].args.volume = [shape |-> <<1, 2, 2>>, data |-> <<1, 2, 3, 4>>]

(***************************************************************************)
(* C2.  A segmentation PUT whose body is shorter than 24 bytes is answered *)
(* 500 and the persistence collaborator is not invoked.                    *)
(***************************************************************************)
C2_ShortBodyRefused ==
    (Done /\ request.method = "PUT" /\ request.path = FramePath /\ Len(request.body) < 24)
    => response.status = 500 /\ CallsTo("segmentation") = {}

(***************************************************************************)
(* C3.  A segmentation PUT whose body is a header of extents (d0,d1,d2)    *)
(* followed by k bytes, k # d0*d1*d2, is answered 500 and the persistence  *)
(* collaborator is not invoked.                                            *)
(***************************************************************************)
C3_LengthMismatchRefused ==
    Done =>
      \A sh \in Shapes, p \in Payloads :
        (request.method = "PUT" /\ request.path = FramePath
            /\ request.body = ShapeBytes(sh) \o p /\ Len(p) # sh[1] * sh[2] * sh[3])
        => response.status = 500 /\ CallsTo("segmentation") = {}

(***************************************************************************)
(* Vocabulary of the router's properties.                                  *)
(***************************************************************************)
\* the slash-separated segments of the request's path
Segments == split(request.path, "/")

\* the catalog lookup itself raised
CatalogRaised == Len(calls) = 1 /\ calls[1].op = "get_run" /\ request.failAt = 1

KindLiterals == { <<"Tomograms">>, <<"Picks">>, <<"Segmentations">> }

HandlerOfKind(kind) ==
    IF kind = <<"Tomograms">> THEN "_handle_tomogram"
    ELSE IF kind = <<"Picks">> THEN "_handle_picks"
    ELSE "_handle_segmentation"

\* the path has three segments or more, a known run and a kind literal
Dispatchable ==
    Len(Segments) >= 3 /\ Segments[1] \in RunNames /\ Segments[2] \in KindLiterals

(***************************************************************************)
(* C4.  A request, of any method and kind, whose run name the catalog does *)
(* not know (the lookup answers None) is answered 404: no handler is       *)
(* invoked and no collaborator other than the catalog is called.           *)
(***************************************************************************)
C4_UnknownRunNotFound ==
    (Done /\ Segments[1] \notin RunNames /\ ~CatalogRaised)
    => /\ response.status = 404
       /\ handled = <<>>
       /\ \A i \in 1..Len(calls) : calls[i].op = "get_run"

\* a PUT on a Picks path of the unknown run zz was answered 404 after one lookup
C4_Witness ==
    /\ Done /\ request.method = "PUT" /\ response.status = 404
    /\ Len(Segments) >= 3 /\ Segments[1] = <<"zz">> /\ Segments[2] = <<"Picks">>
    /\ Len(calls) = 1 /\ handled = <<>>

(***************************************************************************)
(* C5.  handle_request always returns a response whose status is 200, 404  *)
(* or 500, and it is 500 whenever an exception reached the router: raised  *)
(* by the catalog lookup or left uncaught by a handler.                    *)
(***************************************************************************)
C5_NoExceptionEscapes ==
    Done => /\ response.status \in {200, 404, 500}
            /\ (CatalogRaised => response.status = 500)
            /\ \A i \in 1..Len(handled) : handled[i].raised => response.status = 500

\* a handler raised (a chunk read failed) and the router answered 500
C5_Witness ==
    /\ Done /\ Len(handled) = 1 /\ handled[1].raised /\ response.status = 500
    /\ calls[Len(calls)].op = "zarr_get"

(***************************************************************************)
(* C6.  Dispatch: unless the catalog lookup raises, a handler is invoked   *)
(* iff the path has at least 3 segments, segment 0 is a known run and      *)
(* segment 1 is Tomograms, Picks or Segmentations; then the run is looked  *)
(* up once with segment 0, the handler of that kind is invoked once with   *)
(* the remaining segments joined by '/', and its response is the router's; *)
(* otherwise the response is 404.                                          *)
(***************************************************************************)
C6_Dispatch ==
    (Done /\ ~CatalogRaised)
    => /\ (handled # <<>>) <=> Dispatchable
       /\ Dispatchable =>
            /\ Len(handled) = 1
            /\ handled[1].handler = HandlerOfKind(Segments[2])
            /\ Path(Segments[1], Segments[2], handled[1].path) = request.path
            /\ CallsTo("get_run") = {1}
            /\ calls[1].args = <<Segments[1]>>
            /\ (~handled[1].raised =>
                  response = [status |-> handled[1].status, body |-> handled[1].body])
       /\ ~Dispatchable => response.status = 404

\* the Picks handler was invoked with the file name and answered 200 with a body
C6_Witness ==
    /\ Done /\ request.method = "GET"
    /\ request.path = Path(<<"r1">>, <<"Picks">>, <<"bob", "_", "s2", "_", "actin", ".json">>)
    /\ Len(handled) = 1 /\ handled[1].handler = "_handle_picks"
    /\ handled[1].path = <<"bob", "_", "s2", "_", "actin", ".json">>
    /\ response.status = 200 /\ response.body # NoBody

ChunkKeys == { <<"0">>, <<"1">>, <<"0", "/", "1">> }

TomogramPath(v, t, key) ==
    Path(<<"r1">>, <<"Tomograms">>, <<"VoxelSpacing", v, "/", t, ".zarr", "/">> \o key)

(***************************************************************************)
(* C7.  Tomogram GET resolution.  For  VoxelSpacing<v>/<type>.zarr/<key>   *)
(* on the known run, when no collaborator raises: an absent voxel spacing  *)
(* is 404 after one query with the float v; an absent tomogram is 404      *)
(* after one query with <type>; an absent chunk key is 404; otherwise the  *)
(* answer is 200 with exactly the stored bytes of <key>.                   *)
(***************************************************************************)
C7_TomogramGet ==
    (Done /\ request.method = "GET" /\ ~Faulted)
    => \A v \in DOMAIN FloatLiterals, t \in {"raw", "wbp", "xyz"}, key \in ChunkKeys :
         request.path = TomogramPath(v, t, key)
         => IF FloatLiterals[v] \notin VoxelSpacings
            THEN /\ response.status = 404
                 /\ Cardinality(CallsTo("get_voxel_spacing")) = 1
                 /\ \A i \in CallsTo("get_voxel_spacing") : calls[i].args = <<FloatLiterals[v]>>
                 /\ CallsTo("get_tomogram") = {}
            ELSE IF <<t>> \notin TomogramTypes
            THEN /\ response.status = 404
                 /\ Cardinality(CallsTo("get_tomogram")) = 1
                 /\ \A i \in CallsTo("get_tomogram") : calls[i].args = <<<<t>>>>
                 /\ CallsTo("zarr_get") = {}
            ELSE IF key \notin DOMAIN chunks[<<t>>]
            THEN response.status = 404
            ELSE response.status = 200 /\ response.body = chunks[<<t>>][key]

\* a GET returned the bytes an earlier PUT stored at chunk key 1
C7_Witness ==
    /\ Done /\ request.method = "GET" /\ request.path = TomogramPath("10.0", "raw", <<"1">>)
    /\ response.status = 200 /\ response.body = <<1, 2, 3>>

(***************************************************************************)
(* C8.  A HEAD request is answered with the status a GET of the same path  *)
(* on the same store is answered with (the same collaborator call raising, *)
(* if any), and with no body.                                              *)
(***************************************************************************)
C8_HeadAsGet ==
    (Done /\ request.method = "HEAD")
    => /\ response.status = handle_request([request EXCEPT !.method = "GET"], Now).result.status
       /\ response.body = NoBody

\* a HEAD of a stored pick-set: 200 and no body, where the GET has a body
C8_Witness ==
    /\ Done /\ request.method = "HEAD" /\ response.status = 200 /\ response.body = NoBody
    /\ Len(handled) = 1 /\ handled[1].handler = "_handle_picks"
    /\ handle_request([request EXCEPT !.method = "GET"], Now).result.body # NoBody

Underscores(seg) == Cardinality({ i \in 1..Len(seg) : seg[i] = "_" })

(***************************************************************************)
(* C9.  A Picks request, of any method, whose file name segment does not   *)
(* have exactly two underscores (so not exactly 3 fields) is answered 404  *)
(* and no pick-set collaborator is called.                                 *)
(***************************************************************************)
C9_PicksBadName ==
    (Done /\ ~CatalogRaised /\ Dispatchable /\ Segments[2] = <<"Picks">>
          /\ Underscores(Segments[3]) # 2)
    => /\ response.status = 404
       /\ \A i \in 1..Len(calls) : calls[i].op = "get_run"

\* a PUT with a four-field file name was answered 404 without a store call
C9_Witness ==
    /\ Done /\ request.method = "PUT" /\ Dispatchable /\ Segments[2] = <<"Picks">>
    /\ Underscores(Segments[3]) = 3 /\ response.status = 404 /\ Len(calls) = 1

PicksPath(u, s, o) == Path(<<"r1">>, <<"Picks">>, <<u, "_", s, "_", o, ".json">>)

ValidPicksBody(b) == json_loads(b).ok /\ CopickPicksFile(json_loads(b)).ok

\* the GET that follows the request just handled, on its path
FollowingGet == handle_request(Req("GET", request.path, <<>>, 0), Now).result

(***************************************************************************)
(* C10.  Picks write then read: a PUT on {user}_{session}_{object}.json    *)
(* of the known run with a body valid for the schema, no collaborator      *)
(* raising, is answered 200; the GET of the same path that follows is      *)
(* answered 200 with a JSON body whose content is the content that was     *)
(* PUT, after one lookup with (object, user, session).                     *)
(***************************************************************************)
C10_PicksRoundTrip ==
    (Done /\ request.method = "PUT" /\ ~Faulted /\ ValidPicksBody(request.body))
    => \A u \in {"alice", "bob"}, s \in {"s1", "s2"}, o \in {"ribosome", "actin"} :
         request.path = PicksPath(u, s, o)
         => /\ response.status = 200
            /\ FollowingGet.status = 200
            /\ json_loads(FollowingGet.body).ok
            /\ json_loads(FollowingGet.body).dict = json_loads(request.body).dict
            /\ Cardinality({ i \in 1..Len(FollowingGet.calls) :
                               FollowingGet.calls[i].op = "get_picks" }) = 1
            /\ \A i \in 1..Len(FollowingGet.calls) :
                 FollowingGet.calls[i].op = "get_picks"
                 => FollowingGet.calls[i].args = <<<<o>>, <<u>>, <<s>>>>

\* alice's pick-set was PUT with the fields in the order u, p and spaces in
\* the text; the GET that follows returns other text with the same content
C10_Witness ==
    /\ Done /\ request.method = "PUT" /\ response.status = 200
    /\ request.path = PicksPath("alice", "s1", "ribosome")
    /\ json_loads(request.body).dict = (112 :> 51) @@ (117 :> 52)
    /\ FollowingGet.status = 200
    /\ FollowingGet.body # request.body

(***************************************************************************)
(* Vocabulary of the segmentation properties: the file name of the request *)
(* as the protocol writes it, {voxelSize}_{user}_{session}_{name}.zarr.    *)
(***************************************************************************)
SegRequest ==
    Done /\ ~CatalogRaised /\ Dispatchable /\ Segments[2] = <<"Segmentations">>

\* the underscore-separated fields of the file name without its .zarr
SegFields == split(replace(Segments[3], <<".zarr">>), "_")

\* fields 3.. joined by '_'
RawName == join("_", SubSeq(SegFields, 4, Len(SegFields)))

\* the name ends with -multilabel
HasSuffix(name) ==
    Len(name) >= 2 /\ SubSeq(name, Len(name) - 1, Len(name)) = <<"-", "multilabel">>

\* the identities the request passed to the persistence collaborator and to
\* the segmentation lookup
SegIdents ==
    { calls[i].args.ident : i \in CallsTo("segmentation") }
    \cup { calls[i].args : i \in CallsTo("get_segmentations") }

\* the collaborator of the method is invoked once: the lookup by GET and
\* HEAD, the persistence collaborator by a PUT whose body was read and decoded
SegInvokedOnce ==
    /\ request.method \in {"GET", "HEAD"} => Cardinality(CallsTo("get_segmentations")) = 1
    /\ (request.method = "PUT" /\ request.failAt # 2 /\ DecodeFrame(request.body).ok)
         => Cardinality(CallsTo("segmentation")) = 1

\* the identity of the file name, its multilabel flag given
SegIdentity(multilabel) ==
    <<float(SegFields[1]).val, replace(RawName, <<"-", "multilabel">>),
      SegFields[2], SegFields[3], multilabel>>

(***************************************************************************)
(* C11 (as stated).  A segmentation file name with fewer than 4 fields is  *)
(* answered 404 with no collaborator call; one with 4 fields or more and a *)
(* float in field 0 reaches the persistence collaborator (PUT) or the      *)
(* lookup (GET, HEAD) with voxel_size the float of field 0, user and       *)
(* session fields 1 and 2, name fields 3.. joined by '_' with -multilabel  *)
(* removed, and multilabel true exactly when the -multilabel suffix is     *)
(* present.                                                                *)
(***************************************************************************)
C11_IdentityBySuffix ==
    SegRequest =>
      IF Len(SegFields) < 4
      THEN response.status = 404 /\ \A i \in 1..Len(calls) : calls[i].op = "get_run"
      ELSE float(SegFields[1]).ok =>
             /\ SegInvokedOnce
             /\ \A id \in SegIdents : id = SegIdentity(HasSuffix(RawName))

(***************************************************************************)
(* C11 (amended).  The same, with multilabel true exactly when the raw     *)
(* name, fields 3.. joined by '_', contains 'multilabel'.                  *)
(***************************************************************************)
C11_IdentityBySubstring ==
    SegRequest =>
      IF Len(SegFields) < 4
      THEN response.status = 404 /\ \A i \in 1..Len(calls) : calls[i].op = "get_run"
      ELSE float(SegFields[1]).ok =>
             /\ SegInvokedOnce
             /\ \A id \in SegIdents : id = SegIdentity(contains(RawName, <<"multilabel">>))

\* 10.0_alice_s1_membrane-multilabel.zarr was PUT: the persistence
\* collaborator received name membrane, multilabel true
C11_Witness ==
    /\ SegRequest /\ request.method = "PUT" /\ response.status = 200
    /\ RawName = <<"membrane", "-", "multilabel">>
    /\ SegIdents = { <<100, <<"membrane">>, <<"alice">>, <<"s1">>, TRUE>> }

\* the path segment that carries a number does not parse as a float: the
\* VoxelSpacing<float> segment of a tomogram path, the voxelSize field of a
\* segmentation file name
NumberUnparsable ==
    \/ /\ Segments[2] = <<"Tomograms">> /\ Len(Segments) >= 4
       /\ ~float(replace(Segments[3], <<"VoxelSpacing">>)).ok
    \/ /\ Segments[2] = <<"Segmentations">> /\ Len(SegFields) >= 4
       /\ ~float(SegFields[1]).ok

\* the body of a PUT does not decode: JSON or schema for a pick-set, the
\* frame for a segmentation
BodyUndecodable ==
    /\ request.method = "PUT"
    /\ \/ Segments[2] = <<"Picks">> /\ ~ValidPicksBody(request.body)
       \/ Segments[2] = <<"Segmentations">> /\ ~DecodeFrame(request.body).ok

(***************************************************************************)
(* C12.  Not-found taxonomy: when no collaborator raises, a request of any *)
(* kind whose number segment does not parse is answered 404, a GET or HEAD *)
(* is answered 200 or 404 (404 for an identity that does not resolve or a  *)
(* missing chunk or record), and 500 is answered only for a PUT whose body *)
(* does not decode.                                                        *)
(***************************************************************************)
C12_NotFoundTaxonomy ==
    (Done /\ Dispatchable /\ ~Faulted)
    => /\ NumberUnparsable => response.status = 404
       /\ request.method \in {"GET", "HEAD"} => response.status \in {200, 404}
       /\ response.status = 500 => BodyUndecodable

\* the request just handled is a PUT on chunk key of tomogram t, which the
\* catalog resolved (neither lookup raised)
TomogramPutOn(v, t, key) ==
    /\ Done /\ request.method = "PUT" /\ request.path = TomogramPath(v, t, key)
    /\ FloatLiterals[v] \in VoxelSpacings /\ <<t>> \in TomogramTypes
    /\ request.failAt \notin 1..3

\* the response to the request just handled had it been addressed to path
SameRequestOn(path) == handle_request([request EXCEPT !.path = path], Now).result

\* the response to the request just handled had it been a GET
SameRequestAsGet == handle_request([request EXCEPT !.method = "GET"], Now).result

(***************************************************************************)
(* C13.  A PUT to a tomogram that exists and is read-only, whatever the    *)
(* chunk key, is not answered 200 and is not answered with the status of   *)
(* the same PUT to a tomogram that does not exist (404).                   *)
(***************************************************************************)
C13_ReadOnlyPutRejected ==
    \A v \in DOMAIN FloatLiterals, t \in {"raw", "wbp"}, key \in ChunkKeys :
      (TomogramPutOn(v, t, key) /\ read_only(<<t>>) /\ ~Faulted)
      => /\ response.status # 200
         /\ response.status # SameRequestOn(TomogramPath(v, "xyz", key)).status

(***************************************************************************)
(* C14.  Read-only tomograms are never written: after any sequence of      *)
(* requests the chunk store of a read-only tomogram is as the catalog      *)
(* supplied it, and a PUT to it makes no store write and exactly one read, *)
(* of the addressed chunk key, and is answered as the GET is: 200 with the *)
(* stored bytes when the key exists.                                       *)
(***************************************************************************)
C14_ReadOnlyNeverWritten ==
    /\ \A t \in TomogramTypes : read_only(t) => chunks[t] = InitChunks[t]
    /\ \A v \in DOMAIN FloatLiterals, t \in {"raw", "wbp"}, key \in ChunkKeys :
         (TomogramPutOn(v, t, key) /\ read_only(<<t>>))
         => /\ CallsTo("zarr_set") = {} /\ CallsTo("body") = {}
            /\ Cardinality(CallsTo("zarr_get")) = 1
            /\ \A i \in CallsTo("zarr_get") : calls[i].args = <<<<t>>, key>>
            /\ response.status = SameRequestAsGet.status
            /\ response.body = SameRequestAsGet.body
            /\ (~Faulted /\ key \in DOMAIN chunks[<<t>>])
                 => response.status = 200 /\ response.body = InitChunks[<<t>>][key]

\* a PUT of the bytes 1 2 3 to chunk 0 of the read-only tomogram was answered
\* 200 with the stored byte 9, which is still what the store holds
C14_Witness ==
    /\ TomogramPutOn("10.0", "wbp", <<"0">>) /\ request.body = <<1, 2, 3>>
    /\ response = [status |-> 200, body |-> <<9>>]
    /\ chunks[<<"wbp">>][<<"0">>] = <<9>>
    /\ Cardinality(CallsTo("zarr_get")) = 1

\* what a GET or HEAD of path is answered on store st, no collaborator raising
Observed(m, path, st) ==
    LET r == handle_request(Req(m, path, <<>>, 0), st).result
    IN  [status |-> r.status, body |-> r.body]

(***************************************************************************)
(* C15.  Errors are never partially applied: a PUT of any kind that is     *)
(* answered with a status other than 200 leaves every GET and HEAD, on any *)
(* path, answered as it was before the PUT; so a Picks PUT that fails on   *)
(* its body leaves no pick-set visible that was not visible before.        *)
(***************************************************************************)
C15_FailedPutNotApplied ==
    [][ (pc = "idle" /\ pc' = "done" /\ request'.method = "PUT"
            /\ response'.status # 200)
        => \A m \in {"GET", "HEAD"}, path \in AllPaths :
             Observed(m, path, Store(chunks', picks', segs'))
               = Observed(m, path, Store(chunks, picks, segs)) ]_vars

(***************************************************************************)
(* C16.  For every segmentation file name, the multilabel flag passed to   *)
(* the lookup or the persistence collaborator is true iff the raw name     *)
(* contains 'multilabel', and a name passed with the flag true does not    *)
(* contain 'multilabel'.                                                   *)
(***************************************************************************)
C16_MultilabelStripped ==
    (SegRequest /\ Len(SegFields) >= 4 /\ float(SegFields[1]).ok)
    => \A id \in SegIdents :
         /\ id[5] = contains(RawName, <<"multilabel">>)
         /\ id[5] => ~contains(id[2], <<"multilabel">>)

(***************************************************************************)
(* C17.  Tomogram write then read: a PUT to a tomogram that exists and is  *)
(* not read-only makes exactly one store write, of the whole body at the   *)
(* chunk key (the segments after <type>.zarr joined by '/'), and is        *)
(* answered 200; the GET of the same path that follows is answered 200     *)
(* with exactly those bytes; when the store write raises the answer is     *)
(* 500.  (Call 4 of such a PUT is the body read, call 5 the store write.)  *)
(***************************************************************************)
C17_TomogramRoundTrip ==
    \A v \in DOMAIN FloatLiterals, t \in {"raw", "wbp"}, key \in ChunkKeys :
      (TomogramPutOn(v, t, key) /\ ~read_only(<<t>>))
      => /\ request.failAt # 4
              => /\ Cardinality(CallsTo("zarr_set")) = 1
                 /\ \A i \in CallsTo("zarr_set") :
                      calls[i].args = <<<<t>>, key, request.body>>
         /\ ~Faulted
              => /\ response.status = 200
                 /\ chunks[<<t>>][key] = request.body
                 /\ FollowingGet.status = 200
                 /\ FollowingGet.body = request.body
         /\ request.failAt = 5 => response.status = 500

\* the bytes 1 2 3 were PUT at the two-segment chunk key 0/1, which the
\* store did not hold, and the GET that follows returns them
C17_Witness ==
    /\ TomogramPutOn("10", "raw", <<"0", "/", "1">>) /\ request.body = <<1, 2, 3>>
    /\ response.status = 200
    /\ <<"0", "/", "1">> \notin DOMAIN InitChunks[<<"raw">>]
    /\ FollowingGet.status = 200 /\ FollowingGet.body = <<1, 2, 3>>

(***************************************************************************)
(* Vocabulary of the properties of concurrent requests.                    *)
(***************************************************************************)
\* the tasks in the order in which they were resumed from their await
Resumed == SelectSeq(sched, LAMBDA e : e[2] = "resume")

\* task t handles a PUT on chunk 0 of the writable tomogram, nothing raising
ConcTomogramPut(t) ==
    /\ tasks[t].req.method = "PUT" /\ tasks[t].req.path = ConcTomogramPath
    /\ tasks[t].req.failAt = 0

\* the store writes task t has made
TaskWrites(t) == { i \in 1..Len(tasks[t].calls) : tasks[t].calls[i].op = "zarr_set" }

(***************************************************************************)
(* C18.  Concurrent tomogram writes are whole-value: when the two tasks    *)
(* handle PUTs on the same chunk key of a writable tomogram, in whatever   *)
(* order they are started and resumed, each finishes with 200 after        *)
(* exactly one store write of its own whole body, and once both have       *)
(* finished the chunk holds the body of the task resumed last: not a       *)
(* mixture, not the value held before.                                     *)
(***************************************************************************)
C18_ConcurrentWholeWrites ==
    (ConcTomogramPut(1) /\ ConcTomogramPut(2))
    => /\ \A t \in Tasks :
            tasks[t].pc = "done"
            => /\ tasks[t].response.status = 200
               /\ Cardinality(TaskWrites(t)) = 1
               /\ \A i \in TaskWrites(t) :
                    tasks[t].calls[i].args = <<<<"raw">>, <<"0">>, tasks[t].req.body>>
       /\ (\A t \in Tasks : tasks[t].pc = "done")
            => /\ chunks[<<"raw">>][<<"0">>] = tasks[Resumed[Len(Resumed)][1]].req.body
               /\ chunks[<<"raw">>][<<"0">>] # InitChunks[<<"raw">>][<<"0">>]

\* both PUTs were in flight at once: task 1 started first and was resumed
\* last, and the chunk holds its body, not the body of task 2
C18_Witness ==
    /\ ConcTomogramPut(1) /\ ConcTomogramPut(2)
    /\ sched = << <<1, "start">>, <<2, "start">>, <<2, "resume">>, <<1, "resume">> >>
    /\ tasks[1].req.body = <<1, 2, 3>> /\ tasks[2].req.body = <<4>>
    /\ chunks[<<"raw">>][<<"0">>] = <<1, 2, 3>>
    /\ tasks[1].response.status = 200 /\ tasks[2].response.status = 200

\* task g has answered a GET or HEAD of the pick-set while task p handles a
\* PUT of a valid body on it, nothing raising
PicksReadDuringPut(g, p) ==
    /\ g # p
    /\ tasks[g].pc = "done" /\ tasks[g].req.method \in {"GET", "HEAD"}
    /\ tasks[g].req.path = ConcPicksPath
    /\ tasks[p].pc \in {"await", "done"} /\ tasks[p].req.method = "PUT"
    /\ tasks[p].req.path = ConcPicksPath /\ tasks[p].req.failAt = 0
    /\ ValidPicksBody(tasks[p].req.body)

(***************************************************************************)
(* C19.  A Picks GET or HEAD that runs while a Picks PUT on the same       *)
(* identity is in flight is answered as before the PUT (404, no pick-set   *)
(* having existed) or as after it (200, a GET with the content that was    *)
(* PUT): never with a pick-set created but not yet given the body.         *)
(***************************************************************************)
C19_PicksReadNotIntermediate ==
    \A g \in Tasks, p \in Tasks :
      PicksReadDuringPut(g, p)
      => \/ tasks[g].response.status = 404
         \/ /\ tasks[g].response.status = 200
            /\ tasks[g].req.method = "GET"
                 => json_loads(tasks[g].response.body).dict
                      = json_loads(tasks[p].req.body).dict

====
